---- MODULE Spec2Model ----
(* Lightsail instance resource: the create / read / update / delete handlers *)
(* of internal/service/lightsail/instance.go, the vendor operations they     *)
(* start and await, and the validator of the `name` attribute.               *)
EXTENDS Integers, Sequences, FiniteSets, TLC

VARIABLES pc, handler, result, d, tagsPending,
          remote, ops, waitOp, polls, retries,
          trace, waitRet, lastSeen, getAns, preRead, nops, prev, cfgName,
          candidate, verdict

vars == <<pc, handler, result, d, tagsPending,
          remote, ops, waitOp, polls, retries,
          trace, waitRet, lastSeen, getAns, preRead, nops, prev, cfgName,
          candidate, verdict>>

handlerVars == <<pc, handler, result, d, tagsPending,
                 remote, ops, waitOp, polls, retries,
                 trace, waitRet, lastSeen, getAns, preRead, nops, prev, cfgName>>

(* ------------------------------------------------------------------ *)
(* Bounds of the model                                                 *)
(* ------------------------------------------------------------------ *)
MaxOps == 2          \* a mutating call is issued while fewer operations exist
MaxPolls == 2        \* polls of a pending operation before the wait ceiling
MaxRetries == 1      \* transient lookup errors tolerated by one wait
MaxLen == 3          \* longest candidate name given to the validator

(* ------------------------------------------------------------------ *)
(* Program constants                                                   *)
(* ------------------------------------------------------------------ *)
NameMinLen == 2
NameMaxLen == 255

Names == {"test1", "test2"}
IpTypes == {"dualstack", "ipv4"}

(* ------------------------------------------------------------------ *)
(* The `name` validator                                                *)
(* ------------------------------------------------------------------ *)
Lower == {"a"}
Upper == {"B"}
Digit == {"7"}
Alphabet == Lower \cup Upper \cup Digit \cup {".", "_", "-", "!"}

RECURSIVE StringsOfLen(_)
StringsOfLen(n) ==
  IF n = 0 THEN {<<>>}
  ELSE {Append(s, c) : s \in StringsOfLen(n - 1), c \in Alphabet}

Strings == UNION {StringsOfLen(n) : n \in 0..MaxLen}

\* validation.StringLenBetween(2, 255)
StringLenBetween(s) == Len(s) >= NameMinLen /\ Len(s) <= NameMaxLen

\* regexp `^[a-zA-Z]`
BeginsAlpha(s) == Len(s) >= 1 /\ s[1] \in (Lower \cup Upper)

\* the class [a-zA-Z0-9_\-.]
NameClass == Lower \cup Upper \cup Digit \cup {"_", "-", "."}

\* the negated class [^._\-]: any character but the three
NotTrailer(c) == c \notin {".", "_", "-"}

\* regexp `^[a-zA-Z0-9_\-.]+[^._\-]$`: one or more class characters, then
\* exactly one character of the negated class, then the end of the text
MatchesBody(s) ==
  /\ Len(s) >= 2
  /\ \A i \in 1..(Len(s) - 1) : s[i] \in NameClass
  /\ NotTrailer(s[Len(s)])

\* validation.All(...)
ValidateName(s) == StringLenBetween(s) /\ BeginsAlpha(s) /\ MatchesBody(s)

(* ------------------------------------------------------------------ *)
(* Errors and answers                                                  *)
(* ------------------------------------------------------------------ *)
Err(ctx, aws, code) == [ctx |-> ctx, aws |-> aws, code |-> code]
Nil == Err("", FALSE, "nil")
None == Err("", FALSE, "none")
Found == Err("", FALSE, "found")
NilResp == Err("", FALSE, "nilresp")
Pending == Err("", FALSE, "pending")

IsError(r) == r.code \notin {"nil", "none", "found", "nilresp", "pending"}

\* errors a vendor call can return: awserr.Error values and plain errors
ApiErrors == {Err("", TRUE, "NotFoundException"),
              Err("", TRUE, "InternalFailure"),
              Err("", FALSE, "NotFoundException")}

NoOpsError == Err("", FALSE, "No operations found for CreateInstance request")

NotSeen == [status |-> "none", polls |-> 0]

EmptyD == [id |-> "", name |-> "", ip |-> ""]

Lookup(key) == IF key \in Names THEN remote[key] ELSE "absent"

(* ------------------------------------------------------------------ *)
(* Decisions of the handlers                                           *)
(* ------------------------------------------------------------------ *)
Continue(log) == [ret |-> None, log |-> log]
Return(e) == [ret |-> e, log |-> FALSE]

\* mutant: the id is set to something other than the configured name
M_CreateId(name) == IF name = "test1" THEN "test2" ELSE "test1"

\* d.SetId(d.Get("name").(string))
CreateId(name) == name

\* mutant: create goes on to the read without awaiting the operation
M_CreateOnOps(n) == IF n = 0 THEN "ret" ELSE "read"

\* create, after CreateInstances succeeded with n operation handles
CreateOnOps(n) == IF n = 0 THEN "ret" ELSE "wait"

\* the position of update after the ip_address_type block
AfterIp(tags) == IF tags THEN "tags" ELSE "read"

\* mutant: update goes on without awaiting the operation
M_UpdateOnOps(n, tags) == IF n = 0 THEN "ret" ELSE AfterIp(tags)

\* update, after SetIpAddressType succeeded with n operation handles
UpdateOnOps(n, tags) == IF n = 0 THEN "ret" ELSE "wait"

\* delete, after DeleteInstance succeeded with n operation handles:
\* resp.Operations[0] is taken without a length check
DeleteOnOps(n) == IF n = 0 THEN "crashed" ELSE "wait"

\* mutant: create returns the error of the wait, as update does
M_CreateOnWait(e) == IF e # Nil THEN Return(e) ELSE Continue(FALSE)

\* create, after waitOperation returned e: an error is only logged
CreateOnWait(e) == Continue(e # Nil)

\* update, after waitOperation returned e
UpdateOnWait(e) == IF e # Nil THEN Return(e) ELSE Continue(FALSE)

\* mutant: delete ignores the error of the wait, as create does
M_DeleteOnWait(e) == Return(Nil)

\* delete, after waitOperation returned e: fmt.Errorf("... %s", err)
DeleteOnWait(e) ==
  IF e # Nil
  THEN Return(Err("Error waiting for instance to become destroyed", FALSE, e.code))
  ELSE Return(Nil)

\* update, after UpdateTags returned e
UpdateOnTags(e) ==
  IF e # Nil
  THEN Return(Err("error updating Lightsail Instance tags", FALSE, e.code))
  ELSE Continue(FALSE)

\* mutant: the code is compared without the awserr.Error type assertion
M_IsNotFound(e) == e.code = "NotFoundException"

\* err.(awserr.Error) and awsErr.Code() == "NotFoundException"
IsNotFound(e) == e.aws /\ e.code = "NotFoundException"

\* resourceInstanceRead, after GetInstance answered ans (inst: the instance
\* of the response when there is one)
ReadOnAnswer(ans, dd, inst) ==
  IF IsError(ans)
  THEN IF IsNotFound(ans)
       THEN [d |-> [dd EXCEPT !.id = ""], ret |-> Nil, log |-> TRUE]
       ELSE [d |-> dd, ret |-> ans, log |-> FALSE]
  ELSE IF ans = NilResp
       THEN [d |-> [dd EXCEPT !.id = ""], ret |-> Nil, log |-> TRUE]
       ELSE [d |-> [id |-> dd.id, name |-> inst.name, ip |-> inst.ip],
             ret |-> Nil, log |-> FALSE]

(* ------------------------------------------------------------------ *)
(* The operation reconciler                                            *)
(* ------------------------------------------------------------------ *)
WaitError(code) == Err("", FALSE, code)

\* mutant: the ceiling is reported as a vendor failure
M_PollOutcome(status, n) ==
  IF status = "Succeeded" THEN Nil
  ELSE IF status = "Failed" THEN WaitError("OperationFailed")
  ELSE IF n + 1 >= MaxPolls THEN WaitError("OperationFailed")
  ELSE Pending

\* one poll that read the operation's status, after `n` earlier polls
PollOutcome(status, n) ==
  IF status = "Succeeded" THEN Nil
  ELSE IF status = "Failed" THEN WaitError("OperationFailed")
  ELSE IF n + 1 >= MaxPolls THEN WaitError("OperationTimeout")
  ELSE Pending

\* one poll whose lookup failed, after `n` earlier failed lookups
LookupOutcome(n) ==
  IF n >= MaxRetries THEN WaitError("TransientAPIError") ELSE Pending

(* ------------------------------------------------------------------ *)
(* The vendor                                                          *)
(* ------------------------------------------------------------------ *)
\* The control plane is taken to be consistent about existence: an instance
\* exists from the return of a successful CreateInstances until its delete
\* operation succeeds, GetInstance answers NotFoundException only for an
\* absent instance, and any call may fail with another error at any time.
\* The first operation of a response is the one that acts on the instance;
\* further operations of the response settle on their own.
\* what a mutating call can return: an error, or k operation handles, of
\* which the handlers use at most the first
CallErrors == {Err("", TRUE, "InternalFailure")}

Handles == {0, 1, 2}

CallOutcomes ==
  {[err |-> e, k |-> 0] : e \in CallErrors}
    \cup {[err |-> Nil, k |-> k] : k \in Handles}

\* what GetInstance can answer for `key`
GetAnswers(key) ==
  {e \in ApiErrors : IsNotFound(e) => Lookup(key) = "absent"}
    \cup {NilResp}
    \cup (IF Lookup(key) # "absent" THEN {Found} ELSE {})

\* the operations of a response with k handles, all just started on the
\* remote side: `h` is the position of the handle in resp.Operations and `w`
\* what the handlers did about it ("unawaited", "waiting", "ok", "err")
NewOps(kind, name, ip, k) ==
  [i \in 1..k |-> [kind |-> kind, name |-> name, ip |-> ip, h |-> i,
                   status |-> "Started", w |-> "unawaited"]]

(* ------------------------------------------------------------------ *)
(* Initial state                                                       *)
(* ------------------------------------------------------------------ *)
Init ==
  /\ pc = "idle"
  /\ handler = "none"
  /\ result = None
  /\ d = EmptyD
  /\ tagsPending = FALSE
  /\ remote = [n \in Names |-> "absent"]
  /\ ops = <<>>
  /\ waitOp = 0
  /\ polls = 0
  /\ retries = 0
  /\ trace = <<>>
  /\ waitRet = None
  /\ lastSeen = NotSeen
  /\ getAns = None
  /\ preRead = EmptyD
  /\ nops = -1
  /\ prev = "none"
  /\ cfgName = ""
  /\ candidate = <<>>
  /\ verdict = "none"

(* ------------------------------------------------------------------ *)
(* Handler runs                                                        *)
(* ------------------------------------------------------------------ *)
Done == pc = "idle" /\ handler # "none"

\* a handler is entered; a read keeps which run returned nil right before it
Begin(h) ==
  /\ pc = "idle"
  /\ handler' = h
  /\ prev' = IF h = "read" /\ result = Nil /\ handler \in {"create", "delete"}
             THEN handler ELSE "none"
  /\ UNCHANGED <<candidate, verdict>>

\* the handler returns r
Finish(r) ==
  /\ pc' = "idle"
  /\ result' = r

\* the handler calls waitOperation on resp.Operations[0]; the further
\* operations of the response run on the remote side and are never awaited
StartWait(new) ==
  /\ ops' = ops \o [new EXCEPT ![1].w = "waiting"]
  /\ waitOp' = Len(ops) + 1
  /\ polls' = 0
  /\ retries' = 0
  /\ pc' = "wait"
  /\ result' = None

NoWait == UNCHANGED <<ops, waitOp, polls, retries>>

NoGhost ==
  /\ waitRet' = None
  /\ lastSeen' = NotSeen
  /\ getAns' = None
  /\ preRead' = EmptyD

\* where a handler goes after its mutating call `ev` succeeded: it returns
\* the no-operations error, indexes an empty list, awaits the first handle,
\* or goes on to position `next` with the operations left unawaited
Proceed(next, new, ev) ==
  CASE next = "ret" ->
         /\ Finish(NoOpsError)
         /\ trace' = <<ev>>
         /\ NoWait
    [] next = "crashed" ->
         /\ pc' = "crashed"
         /\ result' = None
         /\ trace' = <<ev>>
         /\ NoWait
    [] next = "wait" ->
         /\ StartWait(new)
         /\ trace' = <<ev, "waitOperation">>
    [] OTHER ->
         /\ pc' = next
         /\ result' = None
         /\ ops' = ops \o new
         /\ trace' = <<ev>>
         /\ UNCHANGED <<waitOp, polls, retries>>

\* resourceInstanceCreate up to the call of waitOperation
Create(n, ip, out) ==
  /\ Begin("create")
  /\ d.id = ""
  /\ Len(ops) < MaxOps
  /\ cfgName' = n
  /\ tagsPending' = FALSE
  /\ NoGhost
  /\ IF out.err # Nil
     THEN /\ Finish(out.err)
          /\ d' = [id |-> "", name |-> n, ip |-> ip]
          /\ trace' = <<"CreateInstances">>
          /\ nops' = -1
          /\ UNCHANGED remote
          /\ NoWait
     ELSE /\ Lookup(n) = "absent"
          /\ remote' = [remote EXCEPT ![n] = ip]
          /\ nops' = out.k
          /\ d' = [id |-> IF CreateOnOps(out.k) = "ret" THEN "" ELSE CreateId(n),
                   name |-> n, ip |-> ip]
          /\ Proceed(CreateOnOps(out.k), NewOps("create", n, ip, out.k), "CreateInstances")

\* resourceInstanceDelete up to the call of waitOperation
Delete(out) ==
  /\ Begin("delete")
  /\ d.id # ""
  /\ Len(ops) < MaxOps
  /\ NoGhost
  /\ UNCHANGED <<d, remote, cfgName, tagsPending>>
  /\ IF out.err # Nil
     THEN /\ Finish(out.err)
          /\ trace' = <<"DeleteInstance">>
          /\ nops' = -1
          /\ NoWait
     ELSE /\ Lookup(d.id) # "absent"
          /\ nops' = out.k
          /\ Proceed(DeleteOnOps(out.k), NewOps("delete", d.id, "", out.k), "DeleteInstance")

\* resourceInstanceUpdate up to the call of waitOperation; newIp is the
\* planned ip_address_type, tags whether tags_all has a change
Update(newIp, tags, out) ==
  /\ Begin("update")
  /\ d.id # ""
  /\ Len(ops) < MaxOps
  /\ NoGhost
  /\ tagsPending' = tags
  /\ d' = [d EXCEPT !.ip = newIp]
  /\ UNCHANGED <<remote, cfgName>>
  /\ IF newIp = d.ip
     THEN /\ out = [err |-> Nil, k |-> 0]
          /\ pc' = AfterIp(tags)
          /\ result' = None
          /\ trace' = <<>>
          /\ nops' = -1
          /\ NoWait
     ELSE IF out.err # Nil
     THEN /\ Finish(out.err)
          /\ trace' = <<"SetIpAddressType">>
          /\ nops' = -1
          /\ NoWait
     ELSE /\ Lookup(d.id) # "absent"
          /\ nops' = out.k
          /\ Proceed(UpdateOnOps(out.k, tags), NewOps("setip", d.id, newIp, out.k),
                     "SetIpAddressType")

\* the GetInstance call of resourceInstanceRead and the rest of the read
ReadBody(ans) ==
  LET r == ReadOnAnswer(ans, d, [name |-> d.id, ip |-> Lookup(d.id)])
  IN /\ ans \in GetAnswers(d.id)
     /\ getAns' = ans
     /\ preRead' = d
     /\ d' = r.d
     /\ Finish(r.ret)
     /\ UNCHANGED <<remote, cfgName, tagsPending>>
     /\ NoWait

\* resourceInstanceRead called by the schema engine
Read(ans) ==
  /\ Begin("read")
  /\ d.id # ""
  /\ ReadBody(ans)
  /\ nops' = -1
  /\ waitRet' = None
  /\ lastSeen' = NotSeen
  /\ trace' = <<"GetInstance">>
       \o (IF ReadOnAnswer(ans, d, EmptyD).log THEN <<"log">> ELSE <<>>)

\* resourceInstanceRead called at the end of create and update
ReadStep(ans) ==
  /\ pc = "read"
  /\ ReadBody(ans)
  /\ trace' = trace \o <<"GetInstance">>
       \o (IF ReadOnAnswer(ans, d, EmptyD).log THEN <<"log">> ELSE <<>>)
  /\ UNCHANGED <<handler, prev, waitRet, lastSeen, nops, candidate, verdict>>

\* the tags_all block of resourceInstanceUpdate
TagsStep(e) ==
  /\ pc = "tags"
  /\ trace' = Append(trace, "UpdateTags")
  /\ IF UpdateOnTags(e).ret # None
     THEN Finish(UpdateOnTags(e).ret)
     ELSE pc' = "read" /\ result' = None
  /\ NoWait
  /\ UNCHANGED <<handler, prev, d, tagsPending, remote, waitRet, lastSeen,
                 getAns, preRead, nops, cfgName, candidate, verdict>>

\* the handler's reaction to the return of waitOperation
OnWait(h, e) ==
  IF h = "create" THEN CreateOnWait(e)
  ELSE IF h = "update" THEN UpdateOnWait(e)
  ELSE DeleteOnWait(e)

\* waitOperation returns e, having last seen `seen`
WaitReturns(e, seen) ==
  LET r == OnWait(handler, e)
  IN /\ waitRet' = e
     /\ lastSeen' = seen
     /\ ops' = [ops EXCEPT ![waitOp].w = IF e = Nil THEN "ok" ELSE "err"]
     /\ waitOp' = 0
     /\ polls' = 0
     /\ retries' = 0
     /\ trace' = trace \o <<"waitReturn">> \o (IF r.log THEN <<"log">> ELSE <<>>)
     /\ IF r.ret # None
        THEN Finish(r.ret)
        ELSE /\ pc' = IF handler = "create" THEN "read" ELSE AfterIp(tagsPending)
             /\ result' = None

\* one poll of waitOperation that reads the operation's status
WaitPoll ==
  /\ pc = "wait"
  /\ LET st == ops[waitOp].status
         out == PollOutcome(st, polls)
     IN IF out = Pending
        THEN /\ polls' = polls + 1
             /\ UNCHANGED <<pc, result, ops, waitOp, retries, trace, waitRet, lastSeen>>
        ELSE WaitReturns(out, [status |-> st, polls |-> polls + 1])
  /\ UNCHANGED <<handler, prev, d, tagsPending, remote, getAns, preRead, nops,
                 cfgName, candidate, verdict>>

\* one poll of waitOperation whose lookup of the operation fails
WaitLookupError ==
  /\ pc = "wait"
  /\ LET out == LookupOutcome(retries)
     IN IF out = Pending
        THEN /\ retries' = retries + 1
             /\ UNCHANGED <<pc, result, ops, waitOp, polls, trace, waitRet, lastSeen>>
        ELSE WaitReturns(out, [status |-> "lookup-error", polls |-> polls])
  /\ UNCHANGED <<handler, prev, d, tagsPending, remote, getAns, preRead, nops,
                 cfgName, candidate, verdict>>

\* the remote system settles operation o with status s
OpProgress(o, s) ==
  /\ ops[o].status = "Started"
  /\ ops' = [ops EXCEPT ![o].status = s]
  /\ remote' =
       IF s = "Succeeded" /\ ops[o].h = 1 /\ ops[o].kind = "delete"
         THEN [remote EXCEPT ![ops[o].name] = "absent"]
       ELSE IF s = "Succeeded" /\ ops[o].h = 1 /\ ops[o].kind = "setip" /\ remote[ops[o].name] # "absent"
         THEN [remote EXCEPT ![ops[o].name] = ops[o].ip]
       ELSE remote
  /\ UNCHANGED <<pc, handler, result, d, tagsPending, waitOp, polls, retries,
                 trace, waitRet, lastSeen, getAns, preRead, nops, prev, cfgName,
                 candidate, verdict>>

\* the schema engine validates a candidate `name`
Validate(s) ==
  /\ candidate' = s
  /\ verdict' = IF ValidateName(s) THEN "accepted" ELSE "rejected"
  /\ UNCHANGED handlerVars

Next ==
  \/ \E n \in Names, ip \in IpTypes, out \in CallOutcomes : Create(n, ip, out)
  \/ \E ans \in ApiErrors \cup {NilResp, Found} : Read(ans)
  \/ \E ip \in IpTypes, tags \in BOOLEAN, out \in CallOutcomes : Update(ip, tags, out)
  \/ \E out \in CallOutcomes : Delete(out)
  \/ \E ans \in ApiErrors \cup {NilResp, Found} : ReadStep(ans)
  \/ \E e \in CallErrors \cup {Nil} : TagsStep(e)
  \/ WaitPoll
  \/ WaitLookupError
  \/ \E o \in 1..Len(ops), s \in {"Succeeded", "Failed"} : OpProgress(o, s)

Spec == Init /\ [][Next]_vars

NextValidate == \E s \in Strings : Validate(s)

ValidateSpec == Init /\ [][NextValidate]_vars

(* ------------------------------------------------------------------ *)
(* Properties                                                          *)
(* ------------------------------------------------------------------ *)
NotFoundAnswer == Err("", TRUE, "NotFoundException")

Mutating == {"CreateInstances", "SetIpAddressType"}

\* the positions of event ev in the trace of the current run
At(ev) == {i \in 1..Len(trace) : trace[i] = ev}

Started == {o \in 1..Len(ops) : ops[o].status = "Started"}

\* C1: in a create run whose CreateInstances returned an operation, an error
\* of waitOperation is logged and nothing more: before the read the id is
\* the configured name and the run has not returned, and once the run has
\* returned it has issued GetInstance and returns what the read returns
\* (nil on a found, not-found or nil answer, the answer's error otherwise).
C1_CreateWaitErrorOnlyLogged ==
  (handler = "create" /\ IsError(waitRet)) =>
    /\ \E k \in At("waitReturn") : k < Len(trace) /\ trace[k + 1] = "log"
    /\ pc \in {"read", "idle"}
    /\ pc = "read" => (d.id = cfgName /\ result = None)
    /\ pc = "idle" =>
         /\ At("GetInstance") # {}
         /\ getAns # None
         /\ preRead.id = cfgName
         /\ result = IF IsError(getAns) /\ getAns # NotFoundAnswer THEN getAns ELSE Nil

C1_Witness ==
  /\ handler = "create" /\ pc = "idle"
  /\ IsError(waitRet)
  /\ result = Nil /\ getAns = Found /\ d.id = cfgName

\* C2: a delete run whose wait returned an error returns an error, and a
\* delete run returns nil only when its wait returned success.
C2_DeleteWaitErrorFails ==
  (handler = "delete" /\ pc = "idle") =>
    /\ IsError(waitRet) => IsError(result)
    /\ result = Nil => waitRet = Nil

C2_Witness ==
  /\ handler = "delete" /\ pc = "idle"
  /\ waitRet.code = "OperationTimeout"
  /\ IsError(result)

\* C3: a run whose wait returned the vendor-reported failure returns an
\* error, whatever the handler (create, update, delete).
C3_FailureAlwaysSurfaced ==
  (Done /\ waitRet.code = "OperationFailed") => IsError(result)

\* C4: after the read of a run, a not-found answer has cleared the id and
\* the read returned nil; any other error answer is the return value itself
\* and the id and attributes are those from before the read.
C4_ReadNotFoundOrPropagate ==
  (pc = "idle" /\ getAns # None) =>
    /\ getAns = NotFoundAnswer => (d.id = "" /\ result = Nil)
    /\ (IsError(getAns) /\ getAns # NotFoundAnswer) =>
         (result = getAns /\ d = preRead)

C4_Witness ==
  /\ pc = "idle" /\ handler = "read"
  /\ getAns = NotFoundAnswer
  /\ preRead.id # "" /\ d.id = ""

\* C5: in every run, a GetInstance that follows CreateInstances or
\* SetIpAddressType comes after the return of the wait on that call, and
\* when that wait returned an error the error was logged before the read.
C5_ReadAfterWait ==
  \A i \in At("GetInstance") :
    \A j \in 1..(i - 1) :
      trace[j] \in Mutating =>
        /\ \E k \in (j + 1)..(i - 1) : trace[k] = "waitReturn"
        /\ IsError(waitRet) =>
             \E k \in (j + 1)..(i - 2) : trace[k] = "waitReturn" /\ trace[k + 1] = "log"

C5_Witness ==
  /\ handler = "update" /\ pc = "idle"
  /\ trace = <<"SetIpAddressType", "waitOperation", "waitReturn", "UpdateTags", "GetInstance">>

\* C6: a read that finds the instance, in a create run or right after a
\* create that returned nil, leaves name and id equal to the configured
\* name; a read right after a delete that returned nil does not find the
\* instance, and on the not-found answer the id is cleared.
C6_RoundTrip ==
  /\ (pc = "idle" /\ getAns = Found
        /\ (handler = "create" \/ (handler = "read" /\ prev = "create"))) =>
       (d.name = cfgName /\ d.id = cfgName)
  /\ (pc = "idle" /\ handler = "read" /\ prev = "delete") =>
       /\ getAns # Found
       /\ getAns = NotFoundAnswer => d.id = ""

C6_Witness ==
  /\ pc = "idle" /\ handler = "read" /\ prev = "delete"
  /\ getAns = NotFoundAnswer
  /\ preRead.id = cfgName /\ d.id = ""

\* C7: a wait that ended on an operation still pending at the ceiling
\* returns the timeout, which is not the vendor-reported failure, and the
\* vendor-reported failure is returned only for an operation seen Failed.
C7_TimeoutDistinct ==
  (waitRet # None) =>
    /\ lastSeen.status = "Started" =>
         (lastSeen.polls >= MaxPolls /\ waitRet.code = "OperationTimeout")
    /\ waitRet.code = "OperationTimeout" => lastSeen.status = "Started"
    /\ waitRet.code = "OperationFailed" => lastSeen.status = "Failed"

C7_Witness ==
  /\ waitRet.code = "OperationTimeout"
  /\ lastSeen.status = "Started"

\* the mutating call an operation belongs to: the handles of one response
\* are consecutive in ops, so o - h is the same for all of them
CallOf(o) == o - ops[o].h

\* C8 (as stated): no handler issues a new mutating call while an operation
\* started earlier on the same instance is still non-terminal, so the
\* non-terminal operations of an instance all come from one call.
C8_AtMostOneOutstanding ==
  \A o1, o2 \in Started :
    ops[o1].name = ops[o2].name => CallOf(o1) = CallOf(o2)

\* C8 (amended): only the first operation of a response is ever awaited and
\* at most one operation is awaited at a time; a first operation that is not
\* terminal is the one the running handler is waiting on or one whose wait
\* already returned an error, so a mutating call is issued only when no wait
\* is in progress. Further operations of a response are never awaited.
C8_OneAwaitedAtATime ==
  \A o \in 1..Len(ops) :
    /\ (ops[o].h = 1 /\ o \in Started) =>
         \/ ops[o].w = "err"
         \/ ops[o].w = "waiting"
    /\ ops[o].h > 1 => ops[o].w = "unawaited"
    /\ ops[o].w = "waiting" => (pc = "wait" /\ waitOp = o)

C8_Witness ==
  \E o1, o2, o3 \in Started :
    /\ o1 < o2 /\ o2 < o3
    /\ ops[o1].name = ops[o2].name
    /\ ops[o1].h = 1 /\ ops[o1].w = "err"
    /\ ops[o2].h = 1 /\ ops[o2].w = "waiting" /\ pc = "wait"
    /\ ops[o3].h = 2 /\ ops[o3].w = "unawaited" /\ CallOf(o3) = CallOf(o2)

\* the strings the claim about the validator describes
ClaimedValid(s) ==
  /\ Len(s) >= 2 /\ Len(s) <= 255
  /\ s[1] \in (Lower \cup Upper)
  /\ \A i \in 1..Len(s) : s[i] \in NameClass
  /\ s[Len(s)] \notin {".", "_", "-"}

\* C9: the validator accepts a name exactly when its length is 2..255, it
\* begins with a letter, all its characters are in [A-Za-z0-9_.-] and its
\* last character is none of '.', '_', '-'.
C9_ValidatorExact ==
  (verdict # "none") => ((verdict = "accepted") <=> ClaimedValid(candidate))

\* C10: a run whose mutating call succeeded with no operation handle does not
\* crash, does not call waitOperation, and returns an error.
C10_NoHandlesIsOrdinaryError ==
  (nops = 0) =>
    /\ pc # "crashed"
    /\ At("waitOperation") = {}
    /\ pc = "idle" => IsError(result)

====
